---- MODULE Spec2Model ----
(***************************************************************************)
(* quilt-latest: resolution of a Quilt toolchain snapshot (src/main.rs).   *)
(*                                                                         *)
(* Text is modelled as a sequence of one-character strings, so that        *)
(* str::contains, str::replace, str::split, Display and the catalog        *)
(* template are computed character by character.                           *)
(***************************************************************************)
EXTENDS Naturals, Sequences, FiniteSets, TLC

\* ------------------------------------------------------------------ bounds
\* Longest JSON array a meta endpoint answers with.
MaxFeed == 3
\* Longest <version> list a maven-metadata.xml holds.
MaxMaven == 3

\* ----------------------------------------------------- Option and Result
None == <<>>
Some(x) == <<x>>
Ok(x) == <<"Ok", x>>
Err(e) == <<"Err", <<e>>>>
is_ok(r) == r[1] = "Ok"
is_err(r) == r[1] = "Err"

\* ------------------------------------------------------------------ text
Digits == {"0", "1", "2", "3", "4", "5", "6", "7", "8", "9"}
DigitChar == <<"0", "1", "2", "3", "4", "5", "6", "7", "8", "9">>
\* u8 value of a character of a version identifier (digits, '+', '-', '.', 'b').
byte(c) ==
    CASE c = "+" -> 43
      [] c = "-" -> 45
      [] c = "." -> 46
      [] c = "b" -> 98
      [] c \in Digits -> 47 + (CHOOSE d \in 1..10 : DigitChar[d] = c)

\* str::contains(&str): pat occurs in s as a contiguous run.
contains(s, pat) ==
    \E i \in 0..Len(s) : /\ i + Len(pat) <= Len(s)
                         /\ SubSeq(s, i + 1, i + Len(pat)) = pat
\* str::contains(char)
contains_char(s, c) == \E i \in 1..Len(s) : s[i] = c

RECURSIVE replace(_, _, _)
\* str::replace(char, &str)
replace(s, from, to) ==
    IF s = <<>> THEN <<>>
    ELSE (IF Head(s) = from THEN to ELSE <<Head(s)>>) \o replace(Tail(s), from, to)

RECURSIVE split(_, _)
\* str::split(char): the pieces between separators; "" splits into one empty piece.
split(s, sep) ==
    IF contains_char(s, sep)
    THEN LET i == CHOOSE k \in 1..Len(s) : s[k] = sep /\ \A j \in 1..(k - 1) : s[j] # sep
         IN  <<SubSeq(s, 1, i - 1)>> \o split(SubSeq(s, i + 1, Len(s)), sep)
    ELSE <<s>>

RECURSIVE u64_to_string(_)
\* Display for u64
u64_to_string(n) ==
    IF n < 10 THEN <<DigitChar[n + 1]>>
    ELSE u64_to_string(n \div 10) \o <<DigitChar[(n % 10) + 1]>>

\* -------------------------------------------------------- semver ordering
cmp_usize(a, b) == IF a < b THEN "Less" ELSE IF a > b THEN "Greater" ELSE "Equal"
then_with(o, next) == IF o = "Equal" THEN next ELSE o

RECURSIVE cmp_str(_, _)
\* Ord for str: bytewise lexicographic
cmp_str(a, b) ==
    IF a = <<>> THEN (IF b = <<>> THEN "Equal" ELSE "Less")
    ELSE IF b = <<>> THEN "Greater"
    ELSE IF byte(Head(a)) # byte(Head(b)) THEN cmp_usize(byte(Head(a)), byte(Head(b)))
    ELSE cmp_str(Tail(a), Tail(b))

all_ascii_digit(s) == \A i \in 1..Len(s) : s[i] \in Digits

RECURSIVE trim_start_zeros(_)
trim_start_zeros(s) ==
    IF s # <<>> /\ Head(s) = "0" THEN trim_start_zeros(Tail(s)) ELSE s

RECURSIVE cmp_pre_identifiers(_, _)
cmp_pre_identifiers(L, R) ==
    IF L = <<>> THEN (IF R = <<>> THEN "Equal" ELSE "Less")
    ELSE IF R = <<>> THEN "Greater"
    ELSE LET lhs == Head(L)
             rhs == Head(R)
             ordering ==
                 IF all_ascii_digit(lhs) /\ all_ascii_digit(rhs)
                 THEN then_with(cmp_usize(Len(lhs), Len(rhs)), cmp_str(lhs, rhs))
                 ELSE IF all_ascii_digit(lhs) THEN "Less"
                 ELSE IF all_ascii_digit(rhs) THEN "Greater"
                 ELSE cmp_str(lhs, rhs)
         IN  IF ordering # "Equal" THEN ordering
             ELSE cmp_pre_identifiers(Tail(L), Tail(R))

\* Ord for semver::Prerelease: a release is greater than any of its pre-releases.
PrereleaseCmp(l, r) ==
    IF l = <<>> THEN (IF r = <<>> THEN "Equal" ELSE "Greater")
    ELSE IF r = <<>> THEN "Less"
    ELSE cmp_pre_identifiers(split(l, "."), split(r, "."))

RECURSIVE cmp_build_identifiers(_, _)
cmp_build_identifiers(L, R) ==
    IF L = <<>> THEN (IF R = <<>> THEN "Equal" ELSE "Less")
    ELSE IF R = <<>> THEN "Greater"
    ELSE LET lhs == Head(L)
             rhs == Head(R)
             lhval == trim_start_zeros(lhs)
             rhval == trim_start_zeros(rhs)
             ordering ==
                 IF all_ascii_digit(lhs) /\ all_ascii_digit(rhs)
                 THEN then_with(then_with(cmp_usize(Len(lhval), Len(rhval)),
                                          cmp_str(lhval, rhval)),
                                cmp_usize(Len(lhs), Len(rhs)))
                 ELSE IF all_ascii_digit(lhs) THEN "Less"
                 ELSE IF all_ascii_digit(rhs) THEN "Greater"
                 ELSE cmp_str(lhs, rhs)
         IN  IF ordering # "Equal" THEN ordering
             ELSE cmp_build_identifiers(Tail(L), Tail(R))

\* Ord for semver::BuildMetadata
BuildMetadataCmp(l, r) == cmp_build_identifiers(split(l, "."), split(r, "."))

\* semver::Version::cmp_precedence: major, minor, patch, pre-release.
cmp_precedence(a, b) ==
    then_with(cmp_usize(a.major, b.major),
    then_with(cmp_usize(a.minor, b.minor),
    then_with(cmp_usize(a.patch, b.patch),
              PrereleaseCmp(a.pre, b.pre))))

\* An order that stops at the pre-release, as SemVer precedence does.
VersionCmpPrecedenceOnly(a, b) == cmp_precedence(a, b)
\* Ord for semver::Version (derived): the fields in declaration order, build
\* metadata last.
VersionCmp(a, b) == then_with(cmp_precedence(a, b), BuildMetadataCmp(a.build, b.build))

\* Display for semver::Version
to_string(v) ==
    u64_to_string(v.major) \o <<".">> \o u64_to_string(v.minor) \o <<".">>
        \o u64_to_string(v.patch)
        \o (IF v.pre # <<>> THEN <<"-">> \o v.pre ELSE <<>>)
        \o (IF v.build # <<>> THEN <<"+">> \o v.build ELSE <<>>)

\* --------------------------------------------------------- Client::maven
RECURSIVE insert_tail(_, _)
\* One step of the insertion sort slice::sort runs on a short slice: x moves
\* left past every element it is less than.
insert_tail(sorted, x) ==
    IF sorted = <<>> THEN <<x>>
    ELSE IF VersionCmp(x, sorted[Len(sorted)]) = "Less"
         THEN Append(insert_tail(SubSeq(sorted, 1, Len(sorted) - 1), x), sorted[Len(sorted)])
         ELSE Append(sorted, x)

RECURSIVE sort(_)
\* versions.sort()
sort(v) ==
    IF v = <<>> THEN <<>>
    ELSE insert_tail(sort(SubSeq(v, 1, Len(v) - 1)), v[Len(v)])

\* The sorted list handed back as it is, ascending.
not_reversed(v) == v
\* into_iter().rev().collect()
rev(v) == [i \in 1..Len(v) |-> v[Len(v) + 1 - i]]

\* ------------------------------------------------------------ the client
META_URL == <<"h", "t", "t", "p", "s", ":", "/", "/", "m", "e", "t", "a", ".", "q", "u", "i", "l", "t", "m", "c", ".", "o", "r", "g", "/", "v", "3", "/", "v", "e", "r", "s", "i", "o", "n", "s">>
MAVEN_URL == <<"h", "t", "t", "p", "s", ":", "/", "/", "m", "a", "v", "e", "n", ".", "q", "u", "i", "l", "t", "m", "c", ".", "o", "r", "g", "/", "r", "e", "p", "o", "s", "i", "t", "o", "r", "y", "/", "r", "e", "l", "e", "a", "s", "e">>
GamePath == <<"/", "g", "a", "m", "e">>
LoaderPath == <<"/", "l", "o", "a", "d", "e", "r">>
LoomPkg == <<"o", "r", "g", ".", "q", "u", "i", "l", "t", "m", "c", ".", "l", "o", "o", "m">>
QfapiPkg == <<"o", "r", "g", ".", "q", "u", "i", "l", "t", "m", "c", ".", "q", "u", "i", "l", "t", "e", "d", "-", "f", "a", "b", "r", "i", "c", "-", "a", "p", "i", ".", "q", "u", "i", "l", "t", "e", "d", "-", "f", "a", "b", "r", "i", "c", "-", "a", "p", "i">>

\* format!("{}/{}", META_URL, path)
meta_url(path) == META_URL \o <<"/">> \o path
\* format!("{}/{}/maven-metadata.xml", MAVEN_URL, pkg.replace('.', "/"))
maven_url(pkg) == MAVEN_URL \o <<"/">> \o replace(pkg, ".", <<"/">>) \o <<"/", "m", "a", "v", "e", "n", "-", "m", "e", "t", "a", "d", "a", "t", "a", ".", "x", "m", "l">>
\* A mappings path that leaves the game version out.
MappingsPathUnscoped(mc) == <<"/", "q", "u", "i", "l", "t", "-", "m", "a", "p", "p", "i", "n", "g", "s", "/">>
\* format!("/quilt-mappings/{minecraft}")
MappingsPath(mc) == <<"/", "q", "u", "i", "l", "t", "-", "m", "a", "p", "p", "i", "n", "g", "s", "/">> \o mc

\* What the network answers to one GET: no answer, a body that does not
\* decode, or a body that decodes to the given list.
TransportFailure == <<"transport", <<>>>>
Malformed == <<"malformed", <<>>>>
Body(list) == <<"body", list>>

\* A client that repeats the GET.
call_with_retry(reqs, url) == Append(Append(reqs, url), url)
\* self.agent.get(&url).call(): one GET leaves the process.
call(reqs, url) == Append(reqs, url)

\* Client::meta after the GET: call()? then into_json()?
client_meta(http) ==
    IF http[1] = "transport" THEN Err("TransportError")
    ELSE IF http[1] = "malformed" THEN Err("DecodeError")
    ELSE Ok(http[2])

\* Client::maven after the GET: call()?, into_string()?, from_str()?, then
\* sort and reverse.
client_maven(http) ==
    IF http[1] = "transport" THEN Err("TransportError")
    ELSE IF http[1] = "malformed" THEN Err("DecodeError")
    ELSE Ok(rev(sort(http[2])))

\* ----------------------------------------------------------- JSON values
JBool(b) == <<"Bool", IF b THEN "true" ELSE "false">>
JString(s) == <<"String", s>>
\* serde_json::Map::get
get(extra, key) ==
    IF \E p \in extra : p[1] = key
    THEN Some((CHOOSE p \in extra : p[1] = key)[2])
    ELSE None
\* serde_json::Value::as_bool
as_bool(v) == IF v[1] = "Bool" THEN Some(v[2] = "true") ELSE None
\* .and_then(|v| v.as_bool())
and_then_as_bool(o) == IF o = None THEN None ELSE as_bool(o[1])
\* .map(|v| v.version)
map_version(o) == IF o = None THEN None ELSE Some(o[1].version)
\* .map(|v| v.to_string())
map_to_string(o) == IF o = None THEN None ELSE Some(to_string(o[1]))
\* Iterator::find: the first element of s, in order, whose test came out true;
\* hits[i] is the closure's answer for s[i].
find(s, hits) ==
    IF \E i \in 1..Len(s) : hits[i]
    THEN Some(s[CHOOSE i \in 1..Len(s) : hits[i] /\ \A j \in 1..(i - 1) : ~hits[j]])
    ELSE None
\* Iterator::next on a fresh iterator
next(s) == IF s = <<>> THEN None ELSE Some(s[1])
\* A with_context that also rejects an empty string.
with_context_non_empty(o, e) == IF o = None \/ o[1] = <<>> THEN Err(e) ELSE Ok(o[1])
\* anyhow::Context::with_context on an Option
with_context(o, e) == IF o = None THEN Err(e) ELSE Ok(o[1])

\* A stability test that takes any value spelled "true" for true.
is_stable_lenient(entry) ==
    \E p \in entry.extra : p[1] = "stable" /\ p[2][2] = "true"
\* |entry| entry.extra.get("stable").and_then(|v| v.as_bool()) == Some(true)
is_stable(entry) == and_then_as_bool(get(entry.extra, "stable")) = Some(TRUE)
\* A filter that lets every identifier through.
any_identifier(v) == TRUE
\* |v| !v.contains('-')
no_hyphen(v) == ~contains_char(v, "-")

\* The value of the block that auto-detects the game version.
latest_stable(res) ==
    IF is_err(res) THEN res
    ELSE with_context(
             map_version(find(res[2], [i \in 1..Len(res[2]) |-> is_stable(res[2][i])])),
             "NoStableVersion")

\* The loader expression.
select_loader(res) ==
    IF is_err(res) THEN res
    ELSE LET versions == [i \in 1..Len(res[2]) |-> res[2][i].version]
         IN  with_context(
                 find(versions, [i \in 1..Len(versions) |-> no_hyphen(versions[i])]),
                 "NoLoaderFound")

\* The mappings expression.
select_mappings(res) ==
    IF is_err(res) THEN res
    ELSE with_context(map_version(next(res[2])), "NoMappingsFound")

\* The loom expression.
select_loom(res) ==
    IF is_err(res) THEN res
    ELSE with_context(map_to_string(next(res[2])), "NoLoomVersion")

\* A match that wants the build metadata to be the game version.
build_equals(v, mc) == v.build = mc
\* |v| v.build.contains(&minecraft)
build_matches(v, mc) == contains(v.build, mc)

\* The qfapi expression: an Option, never an error of its own.
select_qfapi(res, mc) ==
    IF is_err(res) THEN res
    ELSE Ok(map_to_string(
                find(res[2], [i \in 1..Len(res[2]) |-> build_matches(res[2][i], mc)])))

\* An error that is swallowed instead of propagated.
never_returns_early(r) == FALSE
\* The `?` operator: does the enclosing function return early with r's error?
returns_early(r) == is_err(r)

\* ------------------------------------------------- format_gradle_catalog
NL == <<"\n">>
AdvisoryComment == <<"#", " ", "C", "o", "m", "p", "a", "t", "i", "b", "l", "e", " ", "Q", "u", "i", "l", "t", "e", "d", " ", "F", "a", "b", "r", "i", "c", " ", "A", "P", "I", " ", "n", "o", "t", " ", "f", "o", "u", "n", "d", ";", " ", "c", "h", "e", "c", "k", " ", "m", "a", "n", "u", "a", "l", "l", "y", ".">>
QfapiLibrary == <<"q", "u", "i", "l", "t", "e", "d", "_", "f", "a", "b", "r", "i", "c", "_", "a", "p", "i", " ", "=", " ", "{", " ", "m", "o", "d", "u", "l", "e", " ", "=", " ", "\"", "o", "r", "g", ".", "q", "u", "i", "l", "t", "m", "c", ".", "q", "u", "i", "l", "t", "e", "d", "-", "f", "a", "b", "r", "i", "c", "-", "a", "p", "i", ":", "q", "u", "i", "l", "t", "e", "d", "-", "f", "a", "b", "r", "i", "c", "-", "a", "p", "i", "\"", ",", " ", "v", "e", "r", "s", "i", "o", "n", ".", "r", "e", "f", " ", "=", " ", "\"", "q", "u", "i", "l", "t", "e", "d", "_", "f", "a", "b", "r", "i", "c", "_", "a", "p", "i", "\"", " ", "}">>

qfapi_version(q) ==
    IF q # None THEN <<"q", "u", "i", "l", "t", "e", "d", "_", "f", "a", "b", "r", "i", "c", "_", "a", "p", "i", " ", "=", " ", "\"">> \o q[1] \o <<"\"">>
    ELSE AdvisoryComment

\* A library line that is never commented out.
qfapi_lib_never_commented(q) == <<>>
qfapi_lib_comment(q) == IF q # None THEN <<>> ELSE <<"#", " ">>

format_gradle_catalog(v) ==
    <<"[", "v", "e", "r", "s", "i", "o", "n", "s", "]">> \o NL
    \o <<"m", "i", "n", "e", "c", "r", "a", "f", "t", " ", "=", " ", "\"">> \o v.minecraft \o <<"\"">> \o NL
    \o <<"q", "u", "i", "l", "t", "_", "l", "o", "a", "d", "e", "r", " ", "=", " ", "\"">> \o v.loader \o <<"\"">> \o NL
    \o <<"q", "u", "i", "l", "t", "_", "m", "a", "p", "p", "i", "n", "g", "s", " ", "=", " ", "\"">> \o v.mappings \o <<"\"">> \o NL
    \o NL
    \o qfapi_version(v.qfapi) \o NL
    \o NL
    \o <<"[", "l", "i", "b", "r", "a", "r", "i", "e", "s", "]">> \o NL
    \o <<"m", "i", "n", "e", "c", "r", "a", "f", "t", " ", "=", " ", "{", " ", "m", "o", "d", "u", "l", "e", " ", "=", " ", "\"", "c", "o", "m", ".", "m", "o", "j", "a", "n", "g", ":", "m", "i", "n", "e", "c", "r", "a", "f", "t", "\"", ",", " ", "v", "e", "r", "s", "i", "o", "n", ".", "r", "e", "f", " ", "=", " ", "\"", "m", "i", "n", "e", "c", "r", "a", "f", "t", "\"", " ", "}">> \o NL
    \o <<"q", "u", "i", "l", "t", "_", "l", "o", "a", "d", "e", "r", " ", "=", " ", "{", " ", "m", "o", "d", "u", "l", "e", " ", "=", " ", "\"", "o", "r", "g", ".", "q", "u", "i", "l", "t", "m", "c", ":", "q", "u", "i", "l", "t", "-", "l", "o", "a", "d", "e", "r", "\"", ",", " ", "v", "e", "r", "s", "i", "o", "n", ".", "r", "e", "f", " ", "=", " ", "\"", "q", "u", "i", "l", "t", "_", "l", "o", "a", "d", "e", "r", "\"", " ", "}">> \o NL
    \o <<"q", "u", "i", "l", "t", "_", "m", "a", "p", "p", "i", "n", "g", "s", " ", "=", " ", "{", " ", "m", "o", "d", "u", "l", "e", " ", "=", " ", "\"", "o", "r", "g", ".", "q", "u", "i", "l", "t", "m", "c", ":", "q", "u", "i", "l", "t", "-", "m", "a", "p", "p", "i", "n", "g", "s", "\"", ",", " ", "v", "e", "r", "s", "i", "o", "n", ".", "r", "e", "f", " ", "=", " ", "\"", "q", "u", "i", "l", "t", "_", "m", "a", "p", "p", "i", "n", "g", "s", "\"", " ", "}">> \o NL
    \o <<" ", " ", " ", " ", " ", " ", " ", " ">> \o NL
    \o qfapi_lib_comment(v.qfapi) \o QfapiLibrary \o NL
    \o NL
    \o <<"[", "p", "l", "u", "g", "i", "n", "s", "]">> \o NL
    \o <<"q", "u", "i", "l", "t", "_", "l", "o", "o", "m", " ", "=", " ", "{", " ", "i", "d", " ", "=", " ", "\"", "o", "r", "g", ".", "q", "u", "i", "l", "t", "m", "c", ".", "l", "o", "o", "m", "\"", ",", " ", "v", "e", "r", "s", "i", "o", "n", " ", "=", " ", "\"">> \o v.loom \o <<"\"", " ", "}">>

\* println!
println(out, text) == Append(out, text \o NL)

\* --------------------------------------------------- inputs of the model
Version(ma, mi, pa, pre, build) ==
    [major |-> ma, minor |-> mi, patch |-> pa, pre |-> pre, build |-> build]

\* Version identifiers the meta feeds and the command line use: an empty one,
\* a plain one and a hyphenated one.
MetaStrings == {<<>>, <<"1", ".", "2">>, <<"1", "-", "b">>}
\* The extra attributes of a game entry: no `stable`, a boolean one, or a
\* string where a boolean was expected.
GameExtras == {{}, {<<"stable", JBool(TRUE)>>}, {<<"stable", JBool(FALSE)>>},
               {<<"stable", JString("true")>>}}
\* The extra attributes of a loader or mappings entry.
OtherExtras == {{}, {<<"stable", JBool(TRUE)>>}}
GameEntries == [version : MetaStrings, extra : GameExtras]
OtherEntries == [version : MetaStrings, extra : OtherExtras]
GameFeeds == UNION {[1..n -> GameEntries] : n \in 0..MaxFeed}
OtherFeeds == UNION {[1..n -> OtherEntries] : n \in 0..MaxFeed}
\* What the network answers to GET /game, and to the other two meta requests.
GameHttp == {TransportFailure, Malformed} \cup {Body(f) : f \in GameFeeds}
OtherHttp == {TransportFailure, Malformed} \cup {Body(f) : f \in OtherFeeds}

\* Published qfapi versions: they differ in major, minor, patch, pre-release
\* or in build metadata alone; "1.2" occurs in build metadata, inside longer
\* build metadata, and outside build metadata.
MavenVersions ==
    { Version(1, 0, 0, <<>>, <<>>),
      Version(1, 0, 0, <<>>, <<"1", ".", "2">>),
      Version(1, 0, 0, <<>>, <<"0", ".", "1", ".", "2">>),
      Version(1, 0, 0, <<"b">>, <<"1", ".", "2">>),
      Version(1, 0, 1, <<"b">>, <<>>),
      Version(1, 2, 0, <<>>, <<"b">>),
      Version(2, 0, 0, <<>>, <<"1", "-", "b">>) }
\* Published loom versions.
LoomVersions ==
    { Version(1, 0, 0, <<>>, <<"1", ".", "2">>),
      Version(1, 0, 1, <<"b">>, <<>>) }
QfapiLists == UNION {[1..n -> MavenVersions] : n \in 0..MaxMaven}
LoomLists == UNION {[1..n -> LoomVersions] : n \in 0..MaxMaven}
QfapiHttp == {TransportFailure, Malformed} \cup {Body(l) : l \in QfapiLists}
LoomHttp == {TransportFailure, Malformed} \cup {Body(l) : l \in LoomLists}

\* env::args().nth(1)
Args == {None} \cup {Some(s) : s \in MetaStrings}

\* Field values of a snapshot handed to the formatter on its own, and the
\* renderings of a qfapi version among them.
FieldStrings == MetaStrings \cup {<<"1", ".", "0", ".", "0", "+", "1", ".", "2">>}
QfapiStrings == {<<"1", ".", "0", ".", "0", "+", "1", ".", "2">>, <<"2", ".", "0", ".", "0">>}

\* ------------------------------------------------------------ the state
VARIABLES
    pc,         \* the statement of main that runs next, or that failed
    arg,        \* env::args().nth(1)
    requests,   \* the URLs requested so far, in order
    response,   \* what the last Client call returned
    decoded,    \* the version list the last maven-metadata.xml decoded to
    results,    \* the value of each statement of main so far, in order
    minecraft, loader, mappings, loom, qfapi,   \* the locals of main
    stdout, stderr,
    exit        \* "running", "success" (Ok(())) or "failure" (Err)

vars == <<pc, arg, requests, response, decoded, results,
          minecraft, loader, mappings, loom, qfapi, stdout, stderr, exit>>

Init ==
    /\ pc = "minecraft"
    /\ arg \in Args
    /\ requests = <<>>
    /\ response = None
    /\ decoded = <<>>
    /\ results = <<>>
    /\ minecraft = None /\ loader = None /\ mappings = None /\ loom = None /\ qfapi = None
    /\ stdout = <<>> /\ stderr = <<>>
    /\ exit = "running"

\* let minecraft = if let Some(version) = env::args().nth(1) { version }
ExplicitVersion ==
    /\ pc = "minecraft" /\ exit = "running"
    /\ arg # None
    /\ minecraft' = arg
    /\ results' = Append(results, Ok(arg[1]))
    /\ pc' = "loader"
    /\ UNCHANGED <<arg, requests, response, decoded, loader, mappings, loom, qfapi,
                   stdout, stderr, exit>>

\* ... else { client.meta("/game")?....with_context(..)?; eprintln!(..); version }
GameStep ==
    /\ pc = "minecraft" /\ exit = "running"
    /\ arg = None
    /\ \E http \in GameHttp :
        LET res == client_meta(http)
            r == latest_stable(res)
        IN  /\ requests' = call(requests, meta_url(GamePath))
            /\ response' = Some(res)
            /\ results' = Append(results, r)
            /\ IF returns_early(r)
               THEN /\ exit' = "failure"
                    /\ stderr' = Append(stderr, <<"Error", r[2]>>)
                    /\ UNCHANGED <<pc, minecraft>>
               ELSE /\ minecraft' = Some(r[2])
                    /\ stderr' = Append(stderr, <<"Using latest Minecraft version", r[2]>>)
                    /\ pc' = "loader"
                    /\ UNCHANGED exit
    /\ UNCHANGED <<arg, decoded, loader, mappings, loom, qfapi, stdout>>

\* let loader = client.meta("/loader")?....with_context(..)?;
LoaderStep ==
    /\ pc = "loader" /\ exit = "running"
    /\ response = None
    /\ \E http \in OtherHttp :
        LET res == client_meta(http)
            r == select_loader(res)
        IN  /\ requests' = call(requests, meta_url(LoaderPath))
            /\ response' = Some(res)
            /\ results' = Append(results, r)
            /\ IF returns_early(r)
               THEN /\ exit' = "failure"
                    /\ stderr' = Append(stderr, <<"Error", r[2]>>)
                    /\ UNCHANGED <<pc, loader>>
               ELSE /\ loader' = Some(r[2])
                    /\ pc' = "mappings"
                    /\ UNCHANGED <<exit, stderr>>
    /\ UNCHANGED <<arg, decoded, minecraft, mappings, loom, qfapi, stdout>>

\* let mappings = client.meta(format!("/quilt-mappings/{minecraft}"))?....with_context(..)?;
MappingsStep ==
    /\ pc = "mappings" /\ exit = "running"
    /\ response = None
    /\ \E http \in OtherHttp :
        LET res == client_meta(http)
            r == select_mappings(res)
        IN  /\ requests' = call(requests, meta_url(MappingsPath(minecraft[1])))
            /\ response' = Some(res)
            /\ results' = Append(results, r)
            /\ IF returns_early(r)
               THEN /\ exit' = "failure"
                    /\ stderr' = Append(stderr, <<"Error", r[2]>>)
                    /\ UNCHANGED <<pc, mappings>>
               ELSE /\ mappings' = Some(r[2])
                    /\ pc' = "loom"
                    /\ UNCHANGED <<exit, stderr>>
    /\ UNCHANGED <<arg, decoded, minecraft, loader, loom, qfapi, stdout>>

\* let loom = client.maven("org.quiltmc.loom")?....with_context(..)?;
LoomStep ==
    /\ pc = "loom" /\ exit = "running"
    /\ response = None
    /\ \E http \in LoomHttp :
        LET res == client_maven(http)
            r == select_loom(res)
        IN  /\ requests' = call(requests, maven_url(LoomPkg))
            /\ response' = Some(res)
            /\ decoded' = http[2]
            /\ results' = Append(results, r)
            /\ IF returns_early(r)
               THEN /\ exit' = "failure"
                    /\ stderr' = Append(stderr, <<"Error", r[2]>>)
                    /\ UNCHANGED <<pc, loom>>
               ELSE /\ loom' = Some(r[2])
                    /\ pc' = "qfapi"
                    /\ UNCHANGED <<exit, stderr>>
    /\ UNCHANGED <<arg, minecraft, loader, mappings, qfapi, stdout>>

\* let qfapi = client.maven("org.quiltmc.quilted-fabric-api.quilted-fabric-api")?
\*     .into_iter().find(..).map(..);
QfapiStep ==
    /\ pc = "qfapi" /\ exit = "running"
    /\ response = None
    /\ \E http \in QfapiHttp :
        LET res == client_maven(http)
            r == select_qfapi(res, minecraft[1])
        IN  /\ requests' = call(requests, maven_url(QfapiPkg))
            /\ response' = Some(res)
            /\ decoded' = http[2]
            /\ results' = Append(results, r)
            /\ IF returns_early(r)
               THEN /\ exit' = "failure"
                    /\ stderr' = Append(stderr, <<"Error", r[2]>>)
                    /\ UNCHANGED <<pc, qfapi>>
               ELSE /\ qfapi' = r[2]
                    /\ pc' = "catalog"
                    /\ UNCHANGED <<exit, stderr>>
    /\ UNCHANGED <<arg, minecraft, loader, mappings, loom, stdout>>

\* The Versions value main builds from its locals.
Snapshot ==
    [minecraft |-> minecraft[1], loader |-> loader[1], mappings |-> mappings[1],
     loom |-> loom[1], qfapi |-> qfapi]

\* let catalog = format_gradle_catalog(&Versions {..}); println!("{catalog}"); Ok(())
Catalog ==
    /\ pc = "catalog" /\ exit = "running"
    /\ response = None
    /\ stdout' = println(stdout, format_gradle_catalog(Snapshot))
    /\ exit' = "success"
    /\ pc' = "done"
    /\ UNCHANGED <<arg, requests, response, decoded, results,
                   minecraft, loader, mappings, loom, qfapi, stderr>>

\* The end of a `let` statement: the Vec the client returned was consumed by
\* into_iter() and is dropped before the next statement runs.
Drop ==
    /\ exit = "running"
    /\ response # None
    /\ response' = None
    /\ decoded' = <<>>
    /\ UNCHANGED <<pc, arg, requests, results, minecraft, loader, mappings, loom, qfapi,
                   stdout, stderr, exit>>

Next ==
    \/ ExplicitVersion
    \/ GameStep
    \/ LoaderStep
    \/ MappingsStep
    \/ LoomStep
    \/ QfapiStep
    \/ Drop
    \/ Catalog

Spec == Init /\ [][Next]_vars

\* format_gradle_catalog on its own: main entered at its last statement with
\* any snapshot.
FormatInit ==
    /\ pc = "catalog"
    /\ arg = None
    /\ requests = <<>>
    /\ response = None
    /\ decoded = <<>>
    /\ results = <<>>
    /\ minecraft \in {Some(s) : s \in FieldStrings}
    /\ loader \in {Some(s) : s \in FieldStrings}
    /\ mappings \in {Some(s) : s \in FieldStrings}
    /\ loom \in {Some(s) : s \in FieldStrings}
    /\ qfapi \in {None} \cup {Some(s) : s \in QfapiStrings}
    /\ stdout = <<>> /\ stderr = <<>>
    /\ exit = "running"

FormatSpec == FormatInit /\ [][Catalog]_vars

\* =================================================================== claims
\* Helpers of the properties below.
ErrorCount == Cardinality({i \in 1..Len(stderr) : stderr[i][1] = "Error"})
ReportedError == (CHOOSE i \in 1..Len(stderr) : stderr[i][1] = "Error")
LastError == stderr[ReportedError][2][1]
\* The statements of main that have run (the explicit argument issues no request).
Attempted == IF arg # None /\ Len(results) >= 1 THEN Len(results) - 1 ELSE Len(results)
\* The list the last client call returned, after a call that returned one.
Returned == response[1][2]
HasList == response # None /\ is_ok(response[1])
\* The states in which `response` is what Client::meta or Client::maven
\* returned to the named statement.
AfterGame == response # None /\ arg = None
             /\ ((pc = "minecraft" /\ exit = "failure") \/ (pc = "loader" /\ exit = "running"))
AfterLoader == response # None
               /\ ((pc = "loader" /\ exit = "failure") \/ (pc = "mappings" /\ exit = "running"))
AfterMappings == response # None
                 /\ ((pc = "mappings" /\ exit = "failure") \/ (pc = "loom" /\ exit = "running"))
AfterLoom == response # None
             /\ ((pc = "loom" /\ exit = "failure") \/ (pc = "qfapi" /\ exit = "running"))
AfterQfapi == response # None
              /\ ((pc = "qfapi" /\ exit = "failure") \/ (pc = "catalog" /\ exit = "running"))
AfterMaven == AfterLoom \/ AfterQfapi

GameUrl == <<"h", "t", "t", "p", "s", ":", "/", "/", "m", "e", "t", "a", ".", "q", "u", "i", "l", "t", "m", "c", ".", "o", "r", "g", "/", "v", "3", "/", "v", "e", "r", "s", "i", "o", "n", "s", "/", "/", "g", "a", "m", "e">>
LoaderUrl == <<"h", "t", "t", "p", "s", ":", "/", "/", "m", "e", "t", "a", ".", "q", "u", "i", "l", "t", "m", "c", ".", "o", "r", "g", "/", "v", "3", "/", "v", "e", "r", "s", "i", "o", "n", "s", "/", "/", "l", "o", "a", "d", "e", "r">>
MappingsUrlPrefix == <<"h", "t", "t", "p", "s", ":", "/", "/", "m", "e", "t", "a", ".", "q", "u", "i", "l", "t", "m", "c", ".", "o", "r", "g", "/", "v", "3", "/", "v", "e", "r", "s", "i", "o", "n", "s", "/", "/", "q", "u", "i", "l", "t", "-", "m", "a", "p", "p", "i", "n", "g", "s", "/">>
LoomUrl == <<"h", "t", "t", "p", "s", ":", "/", "/", "m", "a", "v", "e", "n", ".", "q", "u", "i", "l", "t", "m", "c", ".", "o", "r", "g", "/", "r", "e", "p", "o", "s", "i", "t", "o", "r", "y", "/", "r", "e", "l", "e", "a", "s", "e", "/", "o", "r", "g", "/", "q", "u", "i", "l", "t", "m", "c", "/", "l", "o", "o", "m", "/", "m", "a", "v", "e", "n", "-", "m", "e", "t", "a", "d", "a", "t", "a", ".", "x", "m", "l">>
QfapiUrl == <<"h", "t", "t", "p", "s", ":", "/", "/", "m", "a", "v", "e", "n", ".", "q", "u", "i", "l", "t", "m", "c", ".", "o", "r", "g", "/", "r", "e", "p", "o", "s", "i", "t", "o", "r", "y", "/", "r", "e", "l", "e", "a", "s", "e", "/", "o", "r", "g", "/", "q", "u", "i", "l", "t", "m", "c", "/", "q", "u", "i", "l", "t", "e", "d", "-", "f", "a", "b", "r", "i", "c", "-", "a", "p", "i", "/", "q", "u", "i", "l", "t", "e", "d", "-", "f", "a", "b", "r", "i", "c", "-", "a", "p", "i", "/", "m", "a", "v", "e", "n", "-", "m", "e", "t", "a", "d", "a", "t", "a", ".", "x", "m", "l">>

\* C1: the catalog is written to standard output only after the game-version,
\* loader, mappings, loom and qfapi statements have all completed without
\* error; a failed fetch, decode or selection leaves standard output empty and
\* ends the run in failure with exactly one error; a run in which nothing
\* fails writes exactly one complete catalog and ends in success.
C1_CatalogAllOrNothing ==
    /\ Len(stdout) <= 1
    /\ stdout # <<>> =>
          /\ Len(results) = 5
          /\ \A i \in 1..5 : is_ok(results[i])
          /\ exit = "success"
    /\ (\E i \in 1..Len(results) : is_err(results[i])) =>
          /\ stdout = <<>>
          /\ exit = "failure"
          /\ ErrorCount = 1
          /\ <<LastError>> = results[Len(results)][2]
    /\ exit = "failure" => (stdout = <<>> /\ ErrorCount = 1 /\ is_err(results[Len(results)]))
    /\ exit = "running" => (stdout = <<>> /\ ErrorCount = 0)
    /\ exit = "success" =>
          /\ ErrorCount = 0
          /\ Len(results) = 5
          /\ stdout = <<format_gradle_catalog(
                           [minecraft |-> results[1][2], loader |-> results[2][2],
                            mappings |-> results[3][2], loom |-> results[4][2],
                            qfapi |-> results[5][2]]) \o <<"\n">> >>

\* C1 witness: the first four statements succeeded, the qfapi fetch failed, and
\* nothing was written.
C1_Witness ==
    /\ exit = "failure" /\ pc = "qfapi"
    /\ Len(results) = 5 /\ \A i \in 1..4 : is_ok(results[i])
    /\ stdout = <<>> /\ ErrorCount = 1

\* C2: requests leave in the order game feed (only without an explicit game
\* version), loader feed, mappings feed, loom index, qfapi index; each at most
\* once; the mappings and qfapi requests only after the game version is
\* resolved; and no request after a failed statement.
C2_RequestOrder ==
    LET expected ==
            (IF arg = None THEN <<GameUrl>> ELSE <<>>)
            \o <<LoaderUrl>>
            \o (IF minecraft # None
                THEN <<MappingsUrlPrefix \o minecraft[1], LoomUrl, QfapiUrl>>
                ELSE <<>>)
    IN  /\ Len(requests) <= Len(expected)
        /\ requests = SubSeq(expected, 1, Len(requests))
        /\ Len(requests) = Attempted
        /\ \A i \in 1..Len(results) : is_err(results[i]) => i = Len(results)

\* C2 witness: a run that auto-detected the game version issued all five
\* requests.
C2_Witness == arg = None /\ Len(requests) = 5 /\ exit = "success"

\* An entry whose `stable` attribute is the JSON boolean true.
StableTrue(e) == <<"stable", <<"Bool", "true">>>> \in e.extra
Hyphenated(s) == \E i \in 1..Len(s) : s[i] = "-"

\* C3: the resolved game version is the explicit argument, unchanged and
\* without a request for the game feed, when one is supplied; otherwise it is
\* the identifier of the first entry of the game feed, in feed order, whose
\* `stable` is the boolean true (missing, false and non-boolean `stable` are
\* passed over); with no such entry (an empty feed included) the run fails with
\* NoStableVersion and writes nothing to standard output.
C3_GameVersion ==
    /\ (arg # None /\ pc # "minecraft") =>
          /\ minecraft = arg
          /\ \A i \in 1..Len(requests) : requests[i] # GameUrl
    /\ (AfterGame /\ exit = "running") =>
          /\ HasList
          /\ \E i \in 1..Len(Returned) :
                /\ StableTrue(Returned[i])
                /\ \A j \in 1..(i - 1) : ~StableTrue(Returned[j])
                /\ minecraft = Some(Returned[i].version)
    /\ (AfterGame /\ HasList /\ \A i \in 1..Len(Returned) : ~StableTrue(Returned[i])) =>
          /\ exit = "failure"
          /\ LastError = "NoStableVersion"
          /\ stdout = <<>>
    /\ (exit = "failure" /\ LastError = "NoStableVersion") =>
          (AfterGame /\ HasList /\ \A i \in 1..Len(Returned) : ~StableTrue(Returned[i]))

\* C3 witness: the game feed's first entry carries a non-boolean `stable`, its
\* second one is stable, and the second one was chosen.
C3_Witness ==
    /\ AfterGame /\ exit = "running" /\ HasList
    /\ Len(Returned) >= 2
    /\ <<"stable", <<"String", "true">>>> \in Returned[1].extra
    /\ StableTrue(Returned[2])
    /\ minecraft = Some(Returned[2].version)

\* C4: the selected loader version is the identifier of the first entry of the
\* loader feed, in feed order, that contains no hyphen, so every entry before it
\* contains one; the run fails with NoLoaderFound when every entry contains a
\* hyphen or the feed is empty.
C4_LoaderVersion ==
    /\ (AfterLoader /\ exit = "running") =>
          /\ HasList
          /\ \E i \in 1..Len(Returned) :
                /\ ~Hyphenated(Returned[i].version)
                /\ \A j \in 1..(i - 1) : Hyphenated(Returned[j].version)
                /\ loader = Some(Returned[i].version)
    /\ (AfterLoader /\ HasList /\ \A i \in 1..Len(Returned) : Hyphenated(Returned[i].version)) =>
          /\ exit = "failure"
          /\ LastError = "NoLoaderFound"
    /\ (exit = "failure" /\ LastError = "NoLoaderFound") =>
          (AfterLoader /\ HasList /\ \A i \in 1..Len(Returned) : Hyphenated(Returned[i].version))

\* C4 witness: a hyphenated entry came first and the entry after it was chosen.
C4_Witness ==
    /\ AfterLoader /\ exit = "running" /\ HasList
    /\ Len(Returned) = 3
    /\ Hyphenated(Returned[1].version)
    /\ ~Hyphenated(Returned[2].version)
    /\ Hyphenated(Returned[3].version)
    /\ loader = Some(Returned[2].version)

\* C5: the mappings feed is requested at the path scoped to the resolved game
\* version (explicit or auto-detected); the selected mappings version is the
\* identifier of the first entry of that feed, unfiltered and not re-sorted;
\* the run fails with NoMappingsFound when that feed is empty.
C5_MappingsVersion ==
    /\ AfterMappings =>
          /\ requests[Len(requests)] = MappingsUrlPrefix \o results[1][2]
          /\ arg # None => results[1][2] = arg[1]
          /\ minecraft = Some(results[1][2])
    /\ (AfterMappings /\ exit = "running") =>
          /\ HasList
          /\ Returned # <<>>
          /\ mappings = Some(Returned[1].version)
    /\ (AfterMappings /\ HasList /\ Returned = <<>>) =>
          /\ exit = "failure"
          /\ LastError = "NoMappingsFound"
    /\ (exit = "failure" /\ LastError = "NoMappingsFound") =>
          (AfterMappings /\ HasList /\ Returned = <<>>)

\* C5 witness: an auto-detected game version scoped the request, and the first
\* entry of a feed whose entries differ was taken.
C5_Witness ==
    /\ AfterMappings /\ exit = "running" /\ HasList
    /\ arg = None
    /\ minecraft = Some(<<"1", ".", "2">>)
    /\ Len(Returned) >= 2
    /\ Returned[1].version # Returned[2].version
    /\ Hyphenated(Returned[1].version)
    /\ mappings = Some(Returned[1].version)

\* C6: the selected compatibility-library version is the first version of the
\* descending qfapi list whose build metadata contains the resolved game
\* version as a substring; with no match the field is absent, no error is
\* raised, and the run still succeeds with a catalog.
C6_QfapiVersion ==
    /\ (AfterQfapi /\ HasList) =>
          /\ exit = "running"
          /\ IF \E i \in 1..Len(Returned) : contains(Returned[i].build, minecraft[1])
             THEN \E i \in 1..Len(Returned) :
                     /\ contains(Returned[i].build, minecraft[1])
                     /\ \A j \in 1..(i - 1) : ~contains(Returned[j].build, minecraft[1])
                     /\ qfapi = Some(to_string(Returned[i]))
             ELSE qfapi = None
    /\ (AfterQfapi /\ exit = "failure") => ~HasList
    /\ (pc \in {"catalog", "done"} /\ qfapi = None) => exit # "failure"
    /\ pc = "done" => (exit = "success" /\ Len(stdout) = 1)

\* C6 witness: the highest version does not match, a lower one does, through
\* build metadata that is longer than the game version.
C6_Witness ==
    /\ AfterQfapi /\ HasList
    /\ minecraft = Some(<<"1", ".", "2">>)
    /\ Len(Returned) >= 2
    /\ ~contains(Returned[1].build, <<"1", ".", "2">>)
    /\ Returned[2].build = <<"0", ".", "1", ".", "2">>
    /\ qfapi = Some(<<"1", ".", "0", ".", "0", "+", "0", ".", "1", ".", "2">>)

Count(s, x) == Cardinality({i \in 1..Len(s) : s[i] = x})

\* C7: the list Client::maven returns is in descending order, list[i] >=
\* list[i+1] for every adjacent pair, and is a permutation of the decoded list:
\* the same elements with the same multiplicities.
C7_DescendingPermutation ==
    (AfterMaven /\ HasList) =>
        /\ \A i \in 1..(Len(Returned) - 1) : VersionCmp(Returned[i], Returned[i + 1]) # "Less"
        /\ Len(Returned) = Len(decoded)
        /\ \A v \in MavenVersions : Count(Returned, v) = Count(decoded, v)

\* C7 witness: a decoded list of three with a repeated version, not in
\* descending order, was returned.
C7_Witness ==
    /\ AfterMaven /\ HasList
    /\ Len(decoded) = 3
    /\ decoded[1] = decoded[3] /\ decoded[1] # decoded[2]
    /\ VersionCmp(decoded[1], decoded[2]) = "Less"
    /\ Returned # decoded

\* The lines of the text written to standard output (println! ends it with a
\* line break, so the piece after the last break is dropped).
OutputLines == LET pieces == split(stdout[1], "\n") IN SubSeq(pieces, 1, Len(pieces) - 1)
\* A line whose first character other than a blank is the comment marker.
Commented(line) ==
    \E i \in 1..Len(line) : line[i] = "#" /\ \A j \in 1..(i - 1) : line[j] = " "
IsQfapiLibraryLine(line) == contains(line, <<"q", "u", "i", "l", "t", "e", "d", "_", "f", "a", "b", "r", "i", "c", "_", "a", "p", "i", " ", "=", " ", "{">>)
QfapiEntry(v) == <<"q", "u", "i", "l", "t", "e", "d", "_", "f", "a", "b", "r", "i", "c", "_", "a", "p", "i", " ", "=", " ", "\"">> \o v \o <<"\"">>
LineNumbers == 1..Len(OutputLines)
\* The characters version strings are written with.
VersionChars == Digits \cup {".", "+", "-", "b"}
\* A version string: non-empty, version characters only, with a digit.
VersionLike(v) ==
    /\ v # <<>>
    /\ \A i \in 1..Len(v) : v[i] \in VersionChars
    /\ \E i \in 1..Len(v) : v[i] \in Digits

\* What the catalog is when qfapi is absent: no uncommented quilted_fabric_api
\* library line, that line present behind a comment marker, and the advisory
\* comment where the version entry would be.
QfapiAbsentLayout ==
    LET lib == {i \in LineNumbers : IsQfapiLibraryLine(OutputLines[i])}
        entry == {i \in LineNumbers : contains(OutputLines[i], <<"q", "u", "i", "l", "t", "e", "d", "_", "f", "a", "b", "r", "i", "c", "_", "a", "p", "i", " ", "=", " ", "\"">>)}
        advisory == {i \in LineNumbers :
                        OutputLines[i] = <<"#", " ", "C", "o", "m", "p", "a", "t", "i", "b", "l", "e", " ", "Q", "u", "i", "l", "t", "e", "d", " ", "F", "a", "b", "r", "i", "c", " ", "A", "P", "I", " ", "n", "o", "t", " ", "f", "o", "u", "n", "d", ";", " ", "c", "h", "e", "c", "k", " ", "m", "a", "n", "u", "a", "l", "l", "y", ".">>}
    IN  /\ \A i \in lib : Commented(OutputLines[i])
        /\ Cardinality(lib) = 1
        /\ \A i \in lib : SubSeq(OutputLines[i], 1, 2) = <<"#", " ">>
        /\ entry = {}
        /\ advisory = {6}
        /\ Len(OutputLines) = 16

\* C8 as stated: with qfapi absent the catalog has no uncommented
\* quilted_fabric_api library line (it is there behind a comment marker, and
\* the advisory comment stands in for the version entry); with qfapi = Some(v)
\* exactly one uncommented line contains v, whatever the other four fields are.
C8_ExactlyOneLineContainsV ==
    stdout # <<>> =>
        IF qfapi = None THEN QfapiAbsentLayout
        ELSE Cardinality({i \in LineNumbers :
                             ~Commented(OutputLines[i]) /\ contains(OutputLines[i], qfapi[1])}) = 1

\* C8 amended: with qfapi absent, as stated; with qfapi = Some(v) the catalog
\* has exactly one version entry quilted_fabric_api = "v", uncommented, and one
\* uncommented library line; the other uncommented lines that contain v are
\* lines of fields whose own value contains v, so for a version string v that
\* none of the other four fields contains, exactly one uncommented line
\* contains v.
C8_FormatterQfapiLine ==
    stdout # <<>> =>
        IF qfapi = None THEN QfapiAbsentLayout
        ELSE LET v == qfapi[1]
                 has == {i \in LineNumbers :
                            ~Commented(OutputLines[i]) /\ contains(OutputLines[i], v)}
                 entry == {i \in LineNumbers : OutputLines[i] = QfapiEntry(v)}
                 lib == {i \in LineNumbers :
                            IsQfapiLibraryLine(OutputLines[i]) /\ ~Commented(OutputLines[i])}
                 others == {f \in {minecraft[1], loader[1], mappings[1], loom[1]} :
                               contains(f, v)}
             IN  /\ entry = {6}
                 /\ Cardinality(lib) = 1
                 /\ 6 \in has
                 /\ (VersionLike(v) /\ others = {}) => has = {6}
                 /\ (VersionLike(v) /\ others # {}) => Cardinality(has) > 1

\* C8 witness: a catalog with a qfapi version that no other field contains,
\* while the game version occurs inside it.
C8_Witness ==
    /\ stdout # <<>>
    /\ qfapi = Some(<<"1", ".", "0", ".", "0", "+", "1", ".", "2">>)
    /\ minecraft = Some(<<"1", ".", "2">>)
    /\ loader = Some(<<>>) /\ mappings = Some(<<"1", "-", "b">>) /\ loom = Some(<<"1", ".", "2">>)

\* C9 as stated: every snapshot handed to the formatter has non-empty
\* minecraft, loader, mappings and loom strings, and inputs that would leave
\* one empty make construction fail with no catalog written.
C9_FieldsNonEmpty ==
    pc \in {"catalog", "done"} =>
        /\ minecraft[1] # <<>>
        /\ loader[1] # <<>>
        /\ mappings[1] # <<>>
        /\ loom[1] # <<>>

\* C9 amended: every snapshot handed to the formatter has a non-empty loom
\* string; minecraft, loader and mappings are taken as they come: an empty
\* explicit argument, or an empty identifier in the entry a selector picks,
\* becomes the field's value, never makes a statement fail, and the catalog is
\* written with it.
C9_EmptyFieldsPassThrough ==
    /\ pc \in {"catalog", "done"} => loom[1] # <<>>
    /\ (arg = Some(<<>>) /\ pc # "minecraft") => minecraft = Some(<<>>)
    /\ (AfterGame /\ HasList
          /\ \E i \in 1..Len(Returned) : StableTrue(Returned[i]) /\ Returned[i].version = <<>>)
       => exit = "running"
    /\ (AfterLoader /\ HasList /\ \E i \in 1..Len(Returned) : Returned[i].version = <<>>)
       => exit = "running"
    /\ (AfterMappings /\ HasList /\ Returned # <<>> /\ Returned[1].version = <<>>)
       => (exit = "running" /\ mappings = Some(<<>>))
    /\ pc = "done" =>
          /\ exit = "success"
          /\ contains(stdout[1], <<"m", "i", "n", "e", "c", "r", "a", "f", "t", " ", "=", " ", "\"">> \o minecraft[1] \o <<"\"", "\n">>)
          /\ contains(stdout[1], <<"q", "u", "i", "l", "t", "_", "l", "o", "a", "d", "e", "r", " ", "=", " ", "\"">> \o loader[1] \o <<"\"", "\n">>)
          /\ contains(stdout[1], <<"q", "u", "i", "l", "t", "_", "m", "a", "p", "p", "i", "n", "g", "s", " ", "=", " ", "\"">> \o mappings[1] \o <<"\"", "\n">>)

\* C9 witness: a catalog was written with empty minecraft, loader and mappings.
C9_Witness ==
    /\ pc = "done" /\ exit = "success" /\ stdout # <<>>
    /\ arg = Some(<<>>)
    /\ minecraft = Some(<<>>) /\ loader = Some(<<>>) /\ mappings = Some(<<>>)

SamePrecedence(a, b) ==
    /\ a.major = b.major /\ a.minor = b.minor /\ a.patch = b.patch /\ a.pre = b.pre

\* C10 as stated: the order Client::maven sorts by compares major, minor,
\* patch, then pre-release and leaves build metadata out: two versions that
\* differ only in build metadata compare as equal.
C10_BuildMetadataExcluded ==
    (AfterMaven /\ HasList) =>
        \A i, j \in 1..Len(Returned) :
            SamePrecedence(Returned[i], Returned[j])
                => VersionCmp(Returned[i], Returned[j]) = "Equal"

\* C10 amended: the order Client::maven sorts by compares major, then minor,
\* then patch, then pre-release, and then build metadata: of two versions that
\* differ only in build metadata the one with the greater build metadata comes
\* first in the descending list; the qfapi match inspects build metadata only.
C10_BuildMetadataOrdersLast ==
    /\ (AfterMaven /\ HasList) =>
          /\ \A i \in 1..(Len(Returned) - 1) :
                LET a == Returned[i]
                    b == Returned[i + 1]
                IN  \/ a.major > b.major
                    \/ a.major = b.major /\ a.minor > b.minor
                    \/ a.major = b.major /\ a.minor = b.minor /\ a.patch > b.patch
                    \/ /\ a.major = b.major /\ a.minor = b.minor /\ a.patch = b.patch
                       /\ PrereleaseCmp(a.pre, b.pre) = "Greater"
                    \/ /\ SamePrecedence(a, b)
                       /\ BuildMetadataCmp(a.build, b.build) # "Less"
          /\ \A i, j \in 1..Len(Returned) :
                (i < j /\ SamePrecedence(Returned[i], Returned[j])
                       /\ Returned[i].build # Returned[j].build)
                    => BuildMetadataCmp(Returned[i].build, Returned[j].build) = "Greater"
    /\ (AfterQfapi /\ HasList) =>
          (qfapi # None <=> \E i \in 1..Len(Returned) : contains(Returned[i].build, minecraft[1]))

\* C10 witness: the decoded list held 1.0.0+1.2 before 1.0.0, and the returned
\* list holds them in the same order, build metadata having decided.
C10_Witness ==
    /\ AfterMaven /\ HasList
    /\ Len(decoded) = 2
    /\ decoded[1] = Version(1, 0, 0, <<>>, <<"1", ".", "2">>)
    /\ decoded[2] = Version(1, 0, 0, <<>>, <<>>)
    /\ Returned = decoded

====
